---- MODULE Spec2Model ----
(***************************************************************************)
(* Model of the asynchronous batching logger of project_debugger:          *)
(*   src/raw_logger.py  AsyncBufferedLogger, LoggerSingleton,              *)
(*                      conversation_logger                                *)
(*   src/singleton.py   LoggerSingleton (logging.Handler variant)          *)
(*                                                                         *)
(* The fallback sink is modelled as the sequence of records handed to      *)
(* fallback_logger (what RotatingFileHandler does with them is outside the *)
(* repository).  A connect attempt and a store write are calls into the    *)
(* driver: each either returns or raises, chosen nondeterministically,     *)
(* except that a batch holding an entry json.dumps cannot serialise is     *)
(* never accepted by the store driver either.                              *)
(***************************************************************************)
EXTENDS Integers, Sequences, FiniteSets, TLC

\* ------------------------------------------------------------------ bounds
MaxLogs == 3
MaxFlushes == 1
MaxReopens == 1
BatchSize == 2
MaxScopes == 2
MaxCalls == 3

\* ------------------------------------------------------- program constants
DEBUG == 10
INFO == 20
ERROR == 40

\* min_log_level=logging.INFO, the constructor's default
min_log_level == INFO
\* batch_size, the flush threshold
batch_size == BatchSize

\* application threads: the thread that calls flush() (and runs the atexit hook)
\* and the thread of the /logger/reopen endpoint; log() is one atomic queue.put
\* and needs no thread of its own
Flushers == {"t1"}
Reopeners == {"t2"}
Threads == Flushers \cup Reopeners
Worker == "w"
Procs == Threads \cup {Worker}
Free == "free"

\* conversation_id values: None, or a session id; Absent marks an entry whose
\* "conversation_id" key has been popped
None == "None"
Absent == "absent"
SessionIds == {"s1"}
DbTypes == {"mongo", "postgres"}

\* threads using the MongoHandler: one logs through the logging module (emit),
\* one calls handler.flush() and handler.reopen() directly
HEmitter == "e"
HFlusher == "f"
HThreads == {HEmitter, HFlusher}

\* threads calling LoggerSingleton.get_logger, and the configurations they pass
SThreads == {"a", "b"}
Cfgs == {"cfg1", "cfg2"}

VARIABLES
    db_type,    \* self.db_type
    queue,      \* self.queue (queue.Queue, unbounded)
    buffer,     \* self.buffer
    lock,       \* self.lock: Free or the process holding it
    running,    \* self.running
    db_ready,   \* self.db_ready
    store,      \* rows persisted by the store adapter: [key, e]
    fallback,   \* records handed to the fallback logger, in order
    pc,         \* position of the worker and of each application thread
    went,       \* the worker's local variable entry
    issued,     \* history: the level of every log() call made, in order
    exiting,    \* the atexit hook (flush) has been started; no further calls
    flushExc,   \* history: the latest flush() call raised into its caller
    bothFailed, \* history: ids of entries whose batch met a failed store write and a raising fallback write
    snap,       \* history: per thread, number of log() calls made before its flush() call
    joinTO,     \* history: per thread, the join of its current flush() timed out
    nflush,     \* number of flush() calls made
    nreopen,    \* number of reopen() calls made
    att,        \* per thread: outcome of the connect attempt of its current reopen()
    scope,      \* the session scope (conversation_logger) of the application thread
    instance,   \* LoggerSingleton._instance: 0 for None, else the instance's number
    created,    \* the configuration of every logger instance constructed, in order
    spc,        \* per get_logger caller: its position
    scfg,       \* per get_logger caller: the configuration of its current call
    sloc,       \* per get_logger caller: the instance it has constructed
    sret,       \* per get_logger caller: what its last call returned (0: none yet)
    firstCfg,   \* history: the configuration of the first get_logger call (if any)
    ncalls,     \* number of get_logger calls made
    hbuffer,    \* MongoHandler.buffer
    hready,     \* MongoHandler.db_ready
    hstore,     \* rows the handler's bulk writes have persisted: [key, e]
    hfile,      \* lines the handler has written to its fallback file, in order
    hpc,        \* per handler thread: its position in emit() / flush()
    hgrouped,   \* per handler thread: the local variable grouped of its flush()
    nemit,      \* number of emit() calls made
    nhflush,    \* number of direct handler.flush() calls made
    nhreopen    \* number of handler.reopen() calls made

logvars == <<db_type, queue, buffer, lock, running, db_ready, store, fallback, pc, went,
             issued, exiting, flushExc, bothFailed, snap, joinTO, nflush, nreopen, att>>
singvars == <<instance, created, spc, scfg, sloc, sret, firstCfg, ncalls>>
hvars == <<hbuffer, hready, hstore, hfile, hpc, hgrouped, nemit, nhflush, nhreopen>>
vars == <<logvars, scope, singvars, hvars>>

\* -------------------------------------------------------------- helpers
Range(s) == {s[i] : i \in 1..Len(s)}

\* the entry dict built by log(): lines 87-93.  ser is whether json.dumps(entry, default=str)
\* succeeds on it (False: extra has non-string keys or a circular reference)
Entry(id, level, cid, ser) ==
    [id |-> id, level |-> level, conversation_id |-> cid, ser |-> ser]

NoEntry == [id |-> 0, level |-> 0, conversation_id |-> None, ser |-> TRUE]

\* the filter with the comparison off by one: an entry at min_log_level is dropped
LogAcceptsStrict(level) == level > min_log_level

\* log(): if level < self.min_log_level: return
LogAccepts(level) == level >= min_log_level

\* entry.pop("conversation_id", "unknown"): the value under the key, the default
\* only when the key is missing
PopCid(e) == IF e.conversation_id = Absent THEN "unknown" ELSE e.conversation_id

\* the entry after the pop: the key is gone
Popped(e) == [e EXCEPT !.conversation_id = Absent]

\* json.dumps(entry, default=str): the line holds exactly the keys the dict has now
JsonDumps(e) == [kind |-> "entry", id |-> e.id, level |-> e.level,
                 conversation_id |-> e.conversation_id]

TextLine(tag) == [kind |-> "text", id |-> 0, level |-> 0, conversation_id |-> tag]

\* index of the first entry json.dumps raises on, 0 when there is none
RECURSIVE FirstBad(_, _)
FirstBad(buf, i) ==
    IF i > Len(buf) THEN 0
    ELSE IF ~buf[i].ser THEN i
    ELSE FirstBad(buf, i + 1)

\* _fallback(list): one record per entry, in order, until json.dumps raises
FallbackLines(buf) ==
    LET b == FirstBad(buf, 1)
        n == IF b = 0 THEN Len(buf) ELSE b - 1
    IN [i \in 1..n |-> JsonDumps(buf[i])]

FallbackRaises(buf) == FirstBad(buf, 1) # 0

\* grouped = defaultdict(list); keys in order of first appearance
RECURSIVE GroupKeys(_, _)
GroupKeys(buf, seen) ==
    IF buf = <<>> THEN <<>>
    ELSE LET k == PopCid(Head(buf))
         IN IF k \in seen THEN GroupKeys(Tail(buf), seen)
            ELSE <<k>> \o GroupKeys(Tail(buf), seen \cup {k})

\* a grouping that is not stable: the entries of one key in reverse batch order
GroupRowsReversed(buf, k) ==
    LET sel == SelectSeq(buf, LAMBDA e : PopCid(e) = k)
    IN [i \in 1..Len(sel) |-> [key |-> k, e |-> Popped(sel[Len(sel) + 1 - i])]]

\* the rows one UpdateOne pushes: the popped entries of one key, in batch order
GroupRows(buf, k) ==
    LET sel == SelectSeq(buf, LAMBDA e : PopCid(e) = k)
    IN [i \in 1..Len(sel) |-> [key |-> k, e |-> Popped(sel[i])]]

RECURSIVE GroupedRows(_, _)
GroupedRows(buf, keys) ==
    IF keys = <<>> THEN <<>>
    ELSE GroupRows(buf, Head(keys)) \o GroupedRows(buf, Tail(keys))

\* mongo: bulk_write(ops), one op per group
MongoRows(buf) == GroupedRows(buf, GroupKeys(buf, {}))

\* postgres: conn.execute(insert, self.buffer), flat rows, the column retained
PostgresRows(buf) == [i \in 1..Len(buf) |-> [key |-> buf[i].conversation_id, e |-> buf[i]]]

\* the batch as the fallback path sees it: mongo has popped the key of every entry
BufferAfterGrouping(buf) ==
    IF db_type = "mongo" THEN [i \in 1..Len(buf) |-> Popped(buf[i])] ELSE buf

WorkerAlive == pc[Worker] \notin {"exited", "dead"}

LogLevels == {DEBUG, INFO}

NoScope == [state |-> "out", sid |-> None, ids |-> {}, raised |-> FALSE, errId |-> 0, n |-> 0]

\* ------------------------------------------------------------------ Init
\* the state after AsyncBufferedLogger.__init__: the constructor's connect
\* attempt has succeeded or failed (its error text went to the fallback file),
\* the worker thread is started
LoggerInit ==
    /\ db_type \in DbTypes
    /\ queue = <<>>
    /\ buffer = <<>>
    /\ lock = Free
    /\ running = TRUE
    /\ db_ready \in BOOLEAN
    /\ store = <<>>
    /\ fallback = IF db_ready THEN <<>> ELSE <<TextLine("DB Connection Error")>>
    /\ pc = [p \in Procs |-> IF p = Worker THEN "get" ELSE "idle"]
    /\ went = NoEntry
    /\ issued = <<>>
    /\ exiting = FALSE
    /\ flushExc = FALSE
    /\ bothFailed = {}
    /\ snap = [t \in Threads |-> 0]
    /\ joinTO = [t \in Threads |-> FALSE]
    /\ nflush = 0
    /\ nreopen = 0
    /\ att = [t \in Threads |-> "none"]
    /\ scope = NoScope

\* LoggerSingleton before any get_logger call: _instance = None
SingletonInit ==
    /\ instance = 0
    /\ created = <<>>
    /\ spc = [t \in SThreads |-> "idle"]
    /\ scfg = [t \in SThreads |-> "cfg1"]
    /\ sloc = [t \in SThreads |-> 0]
    /\ sret = [t \in SThreads |-> 0]
    /\ firstCfg = "none"
    /\ ncalls = 0

\* no MongoHandler is in use: the attributes as lines 14-15 set them
HandlerNone ==
    /\ hbuffer = <<>>
    /\ hready = FALSE
    /\ hstore = <<>>
    /\ hfile = <<>>
    /\ hpc = [t \in HThreads |-> "idle"]
    /\ hgrouped = [t \in HThreads |-> <<>>]
    /\ nemit = 0
    /\ nhflush = 0
    /\ nhreopen = 0

\* the state after MongoHandler.__init__: its connect attempt has succeeded or
\* failed (its error text went to the fallback file)
HandlerConstructed ==
    /\ hbuffer = <<>>
    /\ hready \in BOOLEAN
    /\ hstore = <<>>
    /\ hfile = IF hready THEN <<>> ELSE <<TextLine("MongoHandler Connect Error")>>
    /\ hpc = [t \in HThreads |-> "idle"]
    /\ hgrouped = [t \in HThreads |-> <<>>]
    /\ nemit = 0
    /\ nhflush = 0
    /\ nhreopen = 0

Init == LoggerInit /\ SingletonInit /\ HandlerNone

\* --------------------------------------------------------------- log()
\* a log() that took the batch mutex before the put would wait for it
PutNeedsLock == lock = Free

\* queue.Queue() has no capacity bound and log() takes no lock: the put proceeds
PutCanProceed == TRUE

\* log(message, level, extra, conversation_id) and the per-level methods, which
\* call it with their level: filter, build the entry, queue.put
LogCall(level, cid, ser) ==
    /\ PutCanProceed
    /\ issued' = Append(issued, level)
    /\ queue' = IF LogAccepts(level)
                THEN Append(queue, Entry(Len(issued) + 1, level, cid, ser))
                ELSE queue

Log(level, cid, ser) ==
    /\ ~exiting
    /\ Len(issued) < MaxLogs
    /\ LogCall(level, cid, ser)
    /\ UNCHANGED <<db_type, buffer, lock, running, db_ready, store, fallback, pc, went,
                   exiting, flushExc, bothFailed, snap, joinTO, nflush, nreopen, att>>
    /\ UNCHANGED <<scope, singvars, hvars>>

\* ------------------------------------------------------- _connect_to_db()
\* one connect attempt: db_ready = True, or the error text to the fallback
\* and db_ready = False
ConnectToDb(ok) ==
    /\ db_ready' = ok
    /\ fallback' = IF ok THEN fallback
                   ELSE Append(fallback, TextLine("DB Connection Error"))

\* ------------------------------------------------------------- _worker()
\* entry = self.queue.get(timeout=1)
WorkerGet ==
    /\ pc[Worker] = "get"
    /\ queue # <<>>
    /\ went' = Head(queue)
    /\ queue' = Tail(queue)
    /\ pc' = [pc EXCEPT ![Worker] = "lock"]
    /\ UNCHANGED <<db_type, buffer, lock, running, db_ready, store, fallback,
                   issued, exiting, flushExc, bothFailed, snap, joinTO, nflush, nreopen, att>>
    /\ UNCHANGED <<scope, singvars, hvars>>

\* the loop condition fails: while self.running or not self.queue.empty()
WorkerExit ==
    /\ pc[Worker] = "get"
    /\ ~running
    /\ queue = <<>>
    /\ pc' = [pc EXCEPT ![Worker] = "exited"]
    /\ UNCHANGED <<db_type, queue, buffer, lock, running, db_ready, store, fallback, went,
                   issued, exiting, flushExc, bothFailed, snap, joinTO, nflush, nreopen, att>>
    /\ UNCHANGED <<scope, singvars, hvars>>

\* if len(self.buffer) >= self.batch_size: self._flush_to_db()
ThresholdReached(buf) == Len(buf) >= batch_size

\* with self.lock: self.buffer.append(entry); the threshold test
WorkerAppend ==
    /\ pc[Worker] = "lock"
    /\ lock = Free
    /\ buffer' = Append(buffer, went)
    /\ went' = NoEntry
    /\ IF ThresholdReached(buffer')
       THEN /\ lock' = Worker
            /\ pc' = [pc EXCEPT ![Worker] = "fA"]
       ELSE /\ lock' = Free
            /\ pc' = [pc EXCEPT ![Worker] = "get"]
    /\ UNCHANGED <<db_type, queue, running, db_ready, store, fallback,
                   issued, exiting, flushExc, bothFailed, snap, joinTO, nflush, nreopen, att>>
    /\ UNCHANGED <<scope, singvars, hvars>>

\* --------------------------------------------------------- _flush_to_db()
\* leaving _flush_to_db normally: the with block releases the lock; the worker
\* loops, flush() returns to its caller
FlushReturn(p) ==
    /\ lock' = Free
    /\ pc' = [pc EXCEPT ![p] = IF p = Worker THEN "get" ELSE "idle"]
    /\ flushExc' = flushExc
    /\ snap' = [t \in Threads |-> IF t = p THEN 0 ELSE snap[t]]
    /\ joinTO' = [t \in Threads |-> IF t = p THEN FALSE ELSE joinTO[t]]

\* an exception leaving _flush_to_db: the with block releases the lock; the
\* worker thread dies of it, flush() raises into its caller
FlushRaise(p) ==
    /\ lock' = Free
    /\ pc' = [pc EXCEPT ![p] = IF p = Worker THEN "dead" ELSE "idle"]
    /\ flushExc' = (flushExc \/ p # Worker)
    /\ snap' = [t \in Threads |-> IF t = p THEN 0 ELSE snap[t]]
    /\ joinTO' = [t \in Threads |-> IF t = p THEN FALSE ELSE joinTO[t]]

\* a flush that made its connect attempt whatever the readiness flag says
NeedsConnectAlways == TRUE

\* line 128: if not self.db_ready
NeedsConnect == ~db_ready

\* lines 125-129: if not self.buffer: return; if not self.db_ready: self._connect_to_db()
FlushStart(p) ==
    /\ pc[p] = "fA"
    /\ lock = p
    /\ IF buffer = <<>>
       THEN /\ FlushReturn(p)
            /\ UNCHANGED <<db_ready, fallback>>
       ELSE /\ pc' = [pc EXCEPT ![p] = "fB"]
            /\ UNCHANGED <<lock, flushExc, snap, joinTO>>
            /\ IF NeedsConnect
               THEN \E ok \in BOOLEAN : ConnectToDb(ok)
               ELSE UNCHANGED <<db_ready, fallback>>
    /\ UNCHANGED <<db_type, queue, buffer, running, store, went,
                   issued, exiting, bothFailed, nflush, nreopen, att>>
    /\ UNCHANGED <<scope, singvars, hvars>>

\* the store driver raises on a batch it cannot encode; otherwise it may
\* return or raise
StoreMayReturn(buf) == \A i \in 1..Len(buf) : buf[i].ser

\* self.buffer.clear(), line 157: reached when the except branch did not raise
BufferAfterFlush(buf, fallbackRaised) == IF fallbackRaised THEN buf ELSE <<>>

\* lines 153-157: the except branch, then the clear when _fallback returned
FlushFailed(p, buf) ==
    /\ fallback' = fallback \o <<TextLine("Flush Error")>> \o FallbackLines(buf)
    /\ store' = store
    /\ buffer' = BufferAfterFlush(buf, FallbackRaises(buf))
    /\ IF FallbackRaises(buf)
       THEN /\ bothFailed' = bothFailed \cup {buf[i].id : i \in 1..Len(buf)}
            /\ FlushRaise(p)
       ELSE /\ bothFailed' = bothFailed
            /\ FlushReturn(p)

\* lines 131-157: group and write (mongo), insert (postgres), or raise "DB not ready"
FlushWrite(p) ==
    /\ pc[p] = "fB"
    /\ lock = p
    /\ IF db_ready
       THEN \/ /\ StoreMayReturn(buffer)
               /\ store' = store \o (IF db_type = "mongo" THEN MongoRows(buffer)
                                     ELSE PostgresRows(buffer))
               /\ buffer' = BufferAfterFlush(buffer, FALSE)
               /\ FlushReturn(p)
               /\ UNCHANGED <<fallback, bothFailed>>
            \/ FlushFailed(p, BufferAfterGrouping(buffer))
       ELSE FlushFailed(p, buffer)
    /\ UNCHANGED <<db_type, queue, running, db_ready, went,
                   issued, exiting, nflush, nreopen, att>>
    /\ UNCHANGED <<scope, singvars, hvars>>

\* ---------------------------------------------------------------- flush()
\* self.running = False; if self.thread.is_alive(): join(timeout=2)
BeginFlush(t) ==
    /\ pc[t] = "idle"
    /\ running' = FALSE
    /\ flushExc' = FALSE
    /\ snap' = [snap EXCEPT ![t] = Len(issued)]
    /\ joinTO' = [joinTO EXCEPT ![t] = FALSE]
    /\ pc' = [pc EXCEPT ![t] = IF WorkerAlive THEN "join" ELSE "lockw"]

FlushCall(t) ==
    /\ ~exiting
    /\ nflush < MaxFlushes
    /\ nflush' = nflush + 1
    /\ BeginFlush(t)
    /\ UNCHANGED <<db_type, queue, buffer, lock, db_ready, store, fallback, went,
                   issued, exiting, bothFailed, nreopen, att>>
    /\ UNCHANGED <<scope, singvars, hvars>>

\* atexit.register(self.flush): the hook runs flush() once the application has
\* made its last call
AtExit(t) ==
    /\ ~exiting
    /\ \A u \in Threads : pc[u] = "idle"
    /\ exiting' = TRUE
    /\ BeginFlush(t)
    /\ UNCHANGED <<db_type, queue, buffer, lock, db_ready, store, fallback, went,
                   issued, bothFailed, nflush, nreopen, att>>
    /\ UNCHANGED <<scope, singvars, hvars>>

\* the join returns because the worker has ended
JoinDone(t) ==
    /\ pc[t] = "join"
    /\ ~WorkerAlive
    /\ pc' = [pc EXCEPT ![t] = "lockw"]
    /\ UNCHANGED <<db_type, queue, buffer, lock, running, db_ready, store, fallback, went,
                   issued, exiting, flushExc, bothFailed, snap, joinTO, nflush, nreopen, att>>
    /\ UNCHANGED <<scope, singvars, hvars>>

\* the worker is inside store I/O, or waits for the lock behind it, for longer
\* than the 2 s of the join
WorkerBusy ==
    \/ pc[Worker] \in {"fA", "fB"}
    \/ pc[Worker] = "lock" /\ lock # Free

JoinTimeout(t) ==
    /\ pc[t] = "join"
    /\ WorkerBusy
    /\ pc' = [pc EXCEPT ![t] = "lockw"]
    /\ joinTO' = [joinTO EXCEPT ![t] = TRUE]
    /\ UNCHANGED <<db_type, queue, buffer, lock, running, db_ready, store, fallback, went,
                   issued, exiting, flushExc, bothFailed, snap, nflush, nreopen, att>>
    /\ UNCHANGED <<scope, singvars, hvars>>

\* with self.lock:
FlushAcquire(t) ==
    /\ pc[t] = "lockw"
    /\ lock = Free
    /\ lock' = t
    /\ pc' = [pc EXCEPT ![t] = "fA"]
    /\ UNCHANGED <<db_type, queue, buffer, running, db_ready, store, fallback, went,
                   issued, exiting, flushExc, bothFailed, snap, joinTO, nflush, nreopen, att>>
    /\ UNCHANGED <<scope, singvars, hvars>>

\* --------------------------------------------------------------- reopen()
\* self._connect_to_db(), without the lock
ReopenConnect(t) ==
    /\ ~exiting
    /\ pc[t] = "idle"
    /\ nreopen < MaxReopens
    /\ nreopen' = nreopen + 1
    /\ \E ok \in BOOLEAN :
          /\ ConnectToDb(ok)
          /\ att' = [att EXCEPT ![t] = IF ok THEN "ok" ELSE "fail"]
    /\ pc' = [pc EXCEPT ![t] = "reopen2"]
    /\ UNCHANGED <<db_type, queue, buffer, lock, running, store, went,
                   issued, exiting, flushExc, bothFailed, snap, joinTO, nflush>>
    /\ UNCHANGED <<scope, singvars, hvars>>

\* if self.db_ready: _fallback("[Reopen] Successfully ...") else: _fallback("[Reopen] Failed ...")
ReopenReport(t) ==
    /\ pc[t] = "reopen2"
    /\ fallback' = Append(fallback, TextLine(IF db_ready THEN "Reopen ok" ELSE "Reopen failed"))
    /\ att' = [att EXCEPT ![t] = "none"]
    /\ pc' = [pc EXCEPT ![t] = "idle"]
    /\ UNCHANGED <<db_type, queue, buffer, lock, running, db_ready, store, went,
                   issued, exiting, flushExc, bothFailed, snap, joinTO, nflush, nreopen>>
    /\ UNCHANGED <<scope, singvars, hvars>>

\* ------------------------------------------------------------------ Next
Next ==
    \/ \E level \in LogLevels, cid \in SessionIds, ser \in BOOLEAN : Log(level, cid, ser)
    \/ WorkerGet
    \/ WorkerExit
    \/ WorkerAppend
    \/ \E p \in Procs : FlushStart(p)
    \/ \E p \in Procs : FlushWrite(p)
    \/ \E t \in Flushers : FlushCall(t)
    \/ \E t \in Flushers : AtExit(t)
    \/ \E t \in Flushers : JoinDone(t)
    \/ \E t \in Flushers : JoinTimeout(t)
    \/ \E t \in Flushers : FlushAcquire(t)
    \/ \E t \in Reopeners : ReopenConnect(t)
    \/ \E t \in Reopeners : ReopenReport(t)

Spec == Init /\ [][Next]_vars

\* the threads are scheduled: a thread that can take a step eventually takes one
\* (the worker's queue.get polls with a timeout, a lock holder releases the lock,
\* the join returns after 2 s at the latest)
WorkerStep ==
    \/ WorkerGet
    \/ WorkerExit
    \/ WorkerAppend
    \/ FlushStart(Worker)
    \/ FlushWrite(Worker)

FlusherStep(t) ==
    \/ JoinDone(t)
    \/ JoinTimeout(t)
    \/ FlushAcquire(t)
    \/ FlushStart(t)
    \/ FlushWrite(t)

SpecLive ==
    /\ Init
    /\ [][Next]_vars
    /\ WF_vars(WorkerStep)
    /\ \A t \in Flushers : WF_vars(FlusherStep(t))

\* ------------------------------------------- one producer, several sessions
\* the conversation_id a log() call may carry: none (the parameter's default,
\* None), or one of two session ids
ConversationIds == {None, "s1", "s2"}

\* one producer thread logs plain INFO messages of several sessions, the worker
\* batches them, the application calls flush() and exits
SessionsNext ==
    \/ \E cid \in ConversationIds : Log(INFO, cid, TRUE)
    \/ WorkerGet
    \/ WorkerExit
    \/ WorkerAppend
    \/ \E p \in {Worker} \cup Flushers : FlushStart(p)
    \/ \E p \in {Worker} \cup Flushers : FlushWrite(p)
    \/ \E t \in Flushers : FlushCall(t)
    \/ \E t \in Flushers : AtExit(t)
    \/ \E t \in Flushers : JoinDone(t)
    \/ \E t \in Flushers : JoinTimeout(t)
    \/ \E t \in Flushers : FlushAcquire(t)

SpecSessions == Init /\ [][SessionsNext]_vars

\* ---------------------------------------------------- conversation_logger
\* the thread that runs the session scopes on the shared logger
ScopeThread == "t1"

\* with conversation_logger(logger, conversation_id=sid) as log:
ScopeEnter(sid) ==
    /\ scope.state \in {"out", "exited"}
    /\ scope.n < MaxScopes
    /\ pc[ScopeThread] = "idle"
    /\ scope' = [state |-> "body", sid |-> sid, ids |-> {}, raised |-> FALSE,
                 errId |-> 0, n |-> scope.n + 1]
    /\ UNCHANGED <<logvars, singvars, hvars>>

\* log.info(...), log.debug(...), log.log(...): the wrapper adds conversation_id=sid.
\* The block logs plain messages, which json.dumps can serialise.
ScopeLog(level) ==
    /\ scope.state = "body"
    /\ Len(issued) < MaxLogs
    /\ LogCall(level, scope.sid, TRUE)
    /\ scope' = [scope EXCEPT !.ids = IF LogAccepts(level) THEN @ \cup {Len(issued) + 1} ELSE @]
    /\ UNCHANGED <<db_type, buffer, lock, running, db_ready, store, fallback, pc, went,
                   exiting, flushExc, bothFailed, snap, joinTO, nflush, nreopen, att>>
    /\ UNCHANGED <<singvars, hvars>>

\* the block raises: except Exception: logger.error(traceback.format_exc(), conversation_id=sid); raise
ScopeRaise ==
    /\ scope.state = "body"
    /\ LogCall(ERROR, scope.sid, TRUE)
    /\ scope' = [scope EXCEPT !.state = "finally", !.raised = TRUE, !.errId = Len(issued) + 1]
    /\ UNCHANGED <<db_type, buffer, lock, running, db_ready, store, fallback, pc, went,
                   exiting, flushExc, bothFailed, snap, joinTO, nflush, nreopen, att>>
    /\ UNCHANGED <<singvars, hvars>>

\* the block ends without an exception
ScopeEnd ==
    /\ scope.state = "body"
    /\ scope' = [scope EXCEPT !.state = "finally"]
    /\ UNCHANGED <<logvars, singvars, hvars>>

\* finally: logger.flush()
ScopeFinally ==
    /\ scope.state = "finally"
    /\ BeginFlush(ScopeThread)
    /\ scope' = [scope EXCEPT !.state = "flush"]
    /\ UNCHANGED <<db_type, queue, buffer, lock, db_ready, store, fallback, went,
                   issued, exiting, bothFailed, nflush, nreopen, att>>
    /\ UNCHANGED <<singvars, hvars>>

\* flush() is over: the with statement is left (the block's exception, or the
\* one flush() raised, goes on to the caller)
ScopeExit ==
    /\ scope.state = "flush"
    /\ pc[ScopeThread] = "idle"
    /\ scope' = [scope EXCEPT !.state = "exited"]
    /\ UNCHANGED <<logvars, singvars, hvars>>

ScopeNext ==
    \/ \E sid \in SessionIds : ScopeEnter(sid)
    \/ \E level \in LogLevels : ScopeLog(level)
    \/ ScopeRaise
    \/ ScopeEnd
    \/ ScopeFinally
    \/ ScopeExit
    \/ WorkerGet
    \/ WorkerExit
    \/ WorkerAppend
    \/ \E p \in {Worker, ScopeThread} : FlushStart(p)
    \/ \E p \in {Worker, ScopeThread} : FlushWrite(p)
    \/ JoinDone(ScopeThread)
    \/ JoinTimeout(ScopeThread)
    \/ FlushAcquire(ScopeThread)

SpecScope == Init /\ [][ScopeNext]_vars

\* ------------------------------------------------ LoggerSingleton.get_logger
\* if cls._instance is None:
GetLogger(t, cfg) ==
    /\ spc[t] = "idle"
    /\ ncalls < MaxCalls
    /\ ncalls' = ncalls + 1
    /\ scfg' = [scfg EXCEPT ![t] = cfg]
    /\ firstCfg' = IF firstCfg = "none" THEN cfg ELSE firstCfg
    /\ spc' = [spc EXCEPT ![t] = IF instance = 0 THEN "construct" ELSE "ret"]
    /\ UNCHANGED <<instance, created, sloc, sret>>
    /\ UNCHANGED <<logvars, scope, hvars>>

\* AsyncBufferedLogger(*args, **kwargs) / setup_logger(config): a new instance
\* (its worker thread, its handler) with the caller's configuration
Construct(t) ==
    /\ spc[t] = "construct"
    /\ created' = Append(created, scfg[t])
    /\ sloc' = [sloc EXCEPT ![t] = Len(created) + 1]
    /\ spc' = [spc EXCEPT ![t] = "assign"]
    /\ UNCHANGED <<instance, scfg, sret, firstCfg, ncalls>>
    /\ UNCHANGED <<logvars, scope, hvars>>

\* cls._instance = <the new instance>
Assign(t) ==
    /\ spc[t] = "assign"
    /\ instance' = sloc[t]
    /\ spc' = [spc EXCEPT ![t] = "ret"]
    /\ UNCHANGED <<created, scfg, sloc, sret, firstCfg, ncalls>>
    /\ UNCHANGED <<logvars, scope, hvars>>

\* return cls._instance
Return(t) ==
    /\ spc[t] = "ret"
    /\ sret' = [sret EXCEPT ![t] = instance]
    /\ spc' = [spc EXCEPT ![t] = "idle"]
    /\ UNCHANGED <<instance, created, scfg, sloc, firstCfg, ncalls>>
    /\ UNCHANGED <<logvars, scope, hvars>>

SingletonNext ==
    \/ \E t \in SThreads, cfg \in Cfgs : GetLogger(t, cfg)
    \/ \E t \in SThreads : Construct(t)
    \/ \E t \in SThreads : Assign(t)
    \/ \E t \in SThreads : Return(t)

SpecSingleton == Init /\ [][SingletonNext]_vars

\* ------------------------------------------------------------ MongoHandler
\* _connect(): db_ready = True, or db_ready = False and the error text to the file
HConnect(ok) ==
    /\ hready' = ok
    /\ hfile' = IF ok THEN hfile
                ELSE Append(hfile, TextLine("MongoHandler Connect Error"))

\* _fallback(list) of the handler: one line per entry; the entries come from
\* json.loads, so json.dumps always succeeds on them
HFallbackLines(buf) == [i \in 1..Len(buf) |-> JsonDumps(buf[i])]

\* emit(record): format, json.loads, append, the threshold test; fmt is whether
\* self.format(record) succeeds (it raises when record.extra has non-string keys),
\* and then the except branch writes the error text and the whole buffer
HEmit(cid, fmt) ==
    /\ hpc[HEmitter] = "idle"
    /\ nemit < MaxLogs
    /\ nemit' = nemit + 1
    /\ IF fmt
       THEN /\ hbuffer' = Append(hbuffer, Entry(nemit + 1, INFO, cid, TRUE))
            /\ hfile' = hfile
            /\ hpc' = [hpc EXCEPT ![HEmitter] =
                          IF Len(hbuffer') >= batch_size THEN "connect" ELSE "idle"]
       ELSE /\ hbuffer' = hbuffer
            /\ hfile' = hfile \o <<TextLine("MongoHandler Emit Error")>> \o HFallbackLines(hbuffer)
            /\ hpc' = hpc
    /\ UNCHANGED <<hready, hstore, hgrouped, nhflush, nhreopen>>
    /\ UNCHANGED <<logvars, scope, singvars>>

\* handler.flush() called directly, as conversation_logger does on scope exit
HFlushCall ==
    /\ hpc[HFlusher] = "idle"
    /\ nhflush < MaxFlushes
    /\ nhflush' = nhflush + 1
    /\ hpc' = [hpc EXCEPT ![HFlusher] = "connect"]
    /\ UNCHANGED <<hbuffer, hready, hstore, hfile, hgrouped, nemit, nhreopen>>
    /\ UNCHANGED <<logvars, scope, singvars>>

\* flush(), lines 40-41: if not self.db_ready: self._connect()
HFlushConnect(p) ==
    /\ hpc[p] = "connect"
    /\ IF hready
       THEN UNCHANGED <<hready, hfile>>
       ELSE \E ok \in BOOLEAN : HConnect(ok)
    /\ hpc' = [hpc EXCEPT ![p] = "check"]
    /\ UNCHANGED <<hbuffer, hstore, hgrouped, nemit, nhflush, nhreopen>>
    /\ UNCHANGED <<logvars, scope, singvars>>

\* flush(), lines 42-49: return when not ready or nothing buffered; else the
\* grouping loop, which pops conversation_id from every buffered entry
HFlushGroup(p) ==
    /\ hpc[p] = "check"
    /\ IF ~hready \/ hbuffer = <<>>
       THEN /\ hpc' = [hpc EXCEPT ![p] = "idle"]
            /\ UNCHANGED <<hbuffer, hgrouped>>
       ELSE /\ hgrouped' = [hgrouped EXCEPT ![p] = MongoRows(hbuffer)]
            /\ hbuffer' = [i \in 1..Len(hbuffer) |-> Popped(hbuffer[i])]
            /\ hpc' = [hpc EXCEPT ![p] = "write"]
    /\ UNCHANGED <<hready, hstore, hfile, nemit, nhflush, nhreopen>>
    /\ UNCHANGED <<logvars, scope, singvars>>

\* flush(), lines 51-62: bulk_write(ops) returns, or it raises and the except
\* branch writes the error text and self.buffer as it is now
HFlushWrite(p) ==
    /\ hpc[p] = "write"
    /\ \/ /\ hstore' = hstore \o hgrouped[p]
          /\ hfile' = hfile
       \/ /\ hstore' = hstore
          /\ hfile' = hfile \o <<TextLine("MongoHandler Flush Error")>> \o HFallbackLines(hbuffer)
    /\ hpc' = [hpc EXCEPT ![p] = "clear"]
    /\ UNCHANGED <<hbuffer, hready, hgrouped, nemit, nhflush, nhreopen>>
    /\ UNCHANGED <<logvars, scope, singvars>>

\* flush(), lines 63-64: finally: self.buffer.clear()
HFlushClear(p) ==
    /\ hpc[p] = "clear"
    /\ hbuffer' = <<>>
    /\ hgrouped' = [hgrouped EXCEPT ![p] = <<>>]
    /\ hpc' = [hpc EXCEPT ![p] = "idle"]
    /\ UNCHANGED <<hready, hstore, hfile, nemit, nhflush, nhreopen>>
    /\ UNCHANGED <<logvars, scope, singvars>>

\* reopen(): self._connect()
HReopen ==
    /\ hpc[HFlusher] = "idle"
    /\ nhreopen < MaxReopens
    /\ nhreopen' = nhreopen + 1
    /\ \E ok \in BOOLEAN : HConnect(ok)
    /\ UNCHANGED <<hbuffer, hstore, hpc, hgrouped, nemit, nhflush>>
    /\ UNCHANGED <<logvars, scope, singvars>>

HandlerNext ==
    \/ \E cid \in ConversationIds, fmt \in BOOLEAN : HEmit(cid, fmt)
    \/ HFlushCall
    \/ \E p \in HThreads : HFlushConnect(p)
    \/ \E p \in HThreads : HFlushGroup(p)
    \/ \E p \in HThreads : HFlushWrite(p)
    \/ \E p \in HThreads : HFlushClear(p)
    \/ HReopen

HandlerInit == LoggerInit /\ SingletonInit /\ HandlerConstructed

SpecHandler == HandlerInit /\ [][HandlerNext]_vars

\* ------------------------------------------------------- observation helpers
\* ids of the entries the store holds, and of the entries the fallback sink holds
StoreIds == {store[i].e.id : i \in 1..Len(store)}
FallbackIds == {fallback[i].id : i \in {j \in 1..Len(fallback) : fallback[j].kind = "entry"}}
Delivered(id) == id \in StoreIds \cup FallbackIds

\* ids of the log() calls whose level passed the filter
AcceptedIds == {i \in 1..Len(issued) : issued[i] >= min_log_level}

\* the level of every entry held anywhere in the pipeline
PipelineLevels ==
    {queue[i].level : i \in 1..Len(queue)}
    \cup {buffer[i].level : i \in 1..Len(buffer)}
    \cup (IF pc[Worker] = "lock" THEN {went.level} ELSE {})
    \cup {store[i].e.level : i \in 1..Len(store)}
    \cup {fallback[i].level : i \in {j \in 1..Len(fallback) : fallback[j].kind = "entry"}}

\* the entry records a step appends to the fallback sink
NewFallbackEntries ==
    SelectSeq(SubSeq(fallback', Len(fallback) + 1, Len(fallback')),
              LAMBDA r : r.kind = "entry")

\* no call is in progress or will be made, and the worker is idle or has ended
Quiescent ==
    /\ exiting
    /\ \A t \in Threads : pc[t] = "idle"
    /\ \/ pc[Worker] \in {"exited", "dead"}
       \/ pc[Worker] = "get" /\ queue = <<>>

\* the step in which flush() returns normally to thread t
FlushReturns(t) ==
    /\ pc[t] \in {"fA", "fB"}
    /\ pc'[t] = "idle"
    /\ flushExc' = flushExc

\* the step in which process p leaves the write stage of _flush_to_db
LeavesFlushWrite(p) == pc[p] = "fB" /\ pc'[p] # "fB"

\* ---------------------------------------------------------------- claims

\* C1: once the system is quiescent (the exit hook's flush included), every
\* accepted entry is in the store or in the fallback sink, unless the store write
\* and the fallback write of its batch both failed.
C1_QuiescentDelivered ==
    Quiescent => \A id \in AcceptedIds : Delivered(id) \/ id \in bothFailed

\* C2: when flush() returns, every entry put on the queue before flush() was
\* called is in the store or in the fallback sink (unless both writes of its
\* batch failed), whether or not the join on the worker timed out.  Stated for
\* the first flush() call, the one made while the worker is still running.
C2_CloseDrains ==
    [][\A t \in Flushers :
          (FlushReturns(t) /\ nflush = 1 /\ ~exiting) =>
             \A id \in AcceptedIds :
                id <= snap[t] => (Delivered(id) \/ id \in bothFailed)']_vars

\* C3: after a session scope has exited, the entries its block logged are in the
\* store or the fallback sink (unless both writes of their batch failed); if the
\* block raised, so is the one ERROR entry of the scope, and the exception that
\* leaves the scope is the block's; if it did not raise, no ERROR entry was added.
C3_ScopeDelivers ==
    scope.state = "exited" =>
        /\ \A id \in scope.ids : Delivered(id) \/ id \in bothFailed
        /\ scope.raised =>
              /\ scope.errId \in AcceptedIds
              /\ issued[scope.errId] = ERROR
              /\ Delivered(scope.errId) \/ scope.errId \in bothFailed
              /\ ~flushExc
        /\ ~scope.raised => scope.errId = 0

\* C4: when the bulk write of the document adapter raises after grouping, every
\* entry of the batch is written to the fallback sink verbatim, with all its
\* fields, its session id included, and the batch is empty afterwards.  Stated
\* for a batch whose entries json.dumps can serialise.
C4_FallbackVerbatim ==
    [][\A p \in Procs :
          (/\ LeavesFlushWrite(p)
           /\ db_type = "mongo"
           /\ db_ready
           /\ store' = store
           /\ StoreMayReturn(buffer)) =>
             /\ NewFallbackEntries = [i \in 1..Len(buffer) |-> JsonDumps(buffer[i])]
             /\ buffer' = <<>>]_vars

\* C5: the worker starts a flush exactly when an append brings the batch to
\* batch_size, the batch is empty right after that flush, entries reach the store
\* or the fallback sink only in such a flush or in an explicit flush(), and
\* whenever the lock is free the batch is shorter than batch_size.
C5_WorkerStep ==
    /\ (pc[Worker] = "lock" /\ pc'[Worker] # "lock") =>
          (pc'[Worker] = "fA" <=> Len(buffer') = batch_size)
    /\ LeavesFlushWrite(Worker) => buffer' = <<>>
    /\ (store' # store \/ NewFallbackEntries # <<>>) =>
          \E p \in Procs :
             /\ LeavesFlushWrite(p)
             /\ p = Worker => Len(buffer) = batch_size

C5_ThresholdPolicy ==
    /\ [](lock = Free => Len(buffer) < batch_size)
    /\ [][C5_WorkerStep]_vars

\* C6: an entry logged below min_log_level never appears in the queue, the batch,
\* the store or the fallback sink, and a log() call at or above min_log_level
\* puts exactly one entry, its own, on the queue; no other step adds to the queue.
C6_LogStep ==
    IF Len(issued') = Len(issued) + 1
    THEN LET level == issued'[Len(issued')]
         IN IF level >= min_log_level
            THEN /\ Len(queue') = Len(queue) + 1
                 /\ SubSeq(queue', 1, Len(queue)) = queue
                 /\ queue'[Len(queue')].id = Len(issued')
                 /\ queue'[Len(queue')].level = level
            ELSE queue' = queue
    ELSE queue' = queue \/ (queue # <<>> /\ queue' = Tail(queue))

C6_MinLevelFilter ==
    /\ [](\A l \in PipelineLevels : l >= min_log_level)
    /\ [][C6_LogStep]_vars

\* a DEBUG call was dropped and a later INFO call's entry reached the store
C6_Witness ==
    \E i \in 1..Len(issued), j \in 1..Len(issued) :
        /\ i < j
        /\ issued[i] = DEBUG
        /\ issued[j] = INFO
        /\ j \in StoreIds

\* C7: no failure of the pipeline reaches the application or ends the worker:
\* flush() never raises into its caller and the worker thread is never killed.
C7_NoErrorSurfaces ==
    /\ ~flushExc
    /\ pc[Worker] # "dead"

\* C8: log() never waits: a log() call can complete in every reachable state,
\* also while the worker holds the lock inside a flush, and the call touches
\* neither the lock, nor any thread's position, nor the batch, the store or the
\* fallback sink.
C8_LogAny == \E level \in LogLevels, cid \in SessionIds, ser \in BOOLEAN : Log(level, cid, ser)

C8_LogTouchesQueueOnly ==
    Len(issued') # Len(issued) =>
        /\ lock' = lock
        /\ pc' = pc
        /\ buffer' = buffer
        /\ store' = store
        /\ fallback' = fallback

C8_ProducersNeverBlock ==
    /\ []((~exiting /\ Len(issued) < MaxLogs) => ENABLED C8_LogAny)
    /\ [][C8_LogTouchesQueueOnly]_vars

\* the worker holds the lock inside the store write of a flush, a flush() caller
\* waits for the lock, and an entry is on the queue
C8_Witness ==
    /\ pc[Worker] = "fB"
    /\ lock = Worker
    /\ \E t \in Flushers : pc[t] = "lockw"
    /\ queue # <<>>

\* C9: over any interleaving of get_logger calls, at most one instance is ever
\* constructed, every call returns that instance, and it was constructed with
\* the first caller's configuration.
C9_SingleInstance ==
    /\ Len(created) <= 1
    /\ \A t \in SThreads, u \in SThreads :
          (sret[t] # 0 /\ sret[u] # 0) => sret[t] = sret[u]
    /\ instance # 0 => created[instance] = firstCfg

\* C10: reopen() makes one connect attempt, which sets db_ready to its outcome;
\* when reopen() returns db_ready is true iff that attempt succeeded, and the one
\* outcome line it writes to the fallback sink says so; no step of reopen()
\* changes the queue or the batch.
C10_ReopenStep(t) ==
    /\ (pc[t] = "idle" /\ pc'[t] = "reopen2") =>
          /\ att'[t] \in {"ok", "fail"}
          /\ db_ready' = (att'[t] = "ok")
    /\ (pc[t] = "reopen2" /\ pc'[t] = "idle") =>
          /\ db_ready' = (att[t] = "ok")
          /\ fallback' = Append(fallback,
                                TextLine(IF att[t] = "ok" THEN "Reopen ok" ELSE "Reopen failed"))
    /\ pc'[t] # pc[t] => (queue' = queue /\ buffer' = buffer)

C10_Reopen == [][\A t \in Reopeners : C10_ReopenStep(t)]_vars

\* C12: every flush attempt on a non-empty batch ends with the batch empty,
\* whatever the outcome of the store write and of the fallback write.
C12_FlushClearsBatch ==
    [][\A p \in Procs : LeavesFlushWrite(p) => buffer' = <<>>]_vars

\* C13: a flush on a non-empty batch with db_ready false makes exactly one connect
\* attempt; if the store is still not ready the whole batch goes to the fallback
\* sink, nothing goes to the store and the batch is cleared; with db_ready true
\* no connect attempt is made; a flush on an empty batch changes nothing.
C13_FlushEntry(p) ==
    (pc[p] = "fA" /\ pc'[p] # "fA") =>
        IF buffer = <<>>
        THEN /\ db_ready' = db_ready
             /\ store' = store
             /\ fallback' = fallback
             /\ buffer' = buffer
        ELSE IF db_ready
        THEN /\ db_ready'
             /\ fallback' = fallback
        ELSE \/ db_ready' /\ fallback' = fallback
             \/ ~db_ready' /\ fallback' = Append(fallback, TextLine("DB Connection Error"))

C13_StillNotReady(p) ==
    (LeavesFlushWrite(p) /\ ~db_ready) =>
        /\ store' = store
        /\ NewFallbackEntries = [i \in 1..Len(buffer) |-> JsonDumps(buffer[i])]
        /\ buffer' = <<>>

C13_NotReadyPath ==
    [][\A p \in Procs : C13_FlushEntry(p) /\ C13_StillNotReady(p)]_vars

\* C15: a store write that raises leaves db_ready as it was and makes no connect
\* attempt; a flush that finds db_ready true makes no connect attempt; db_ready
\* changes only in the connect attempt of a flush that found it false, or in the
\* connect attempt of reopen().
C15_ConnectStep ==
    \/ \E p \in Procs : pc[p] = "fA" /\ pc'[p] = "fB" /\ ~db_ready
    \/ \E t \in Reopeners : pc[t] = "idle" /\ pc'[t] = "reopen2"

C15_NewConnectErrors ==
    SelectSeq(SubSeq(fallback', Len(fallback) + 1, Len(fallback')),
              LAMBDA r : r = TextLine("DB Connection Error"))

C15_Step ==
    /\ db_ready' # db_ready => C15_ConnectStep
    /\ C15_NewConnectErrors # <<>> => C15_ConnectStep
    /\ \A p \in Procs : LeavesFlushWrite(p) => db_ready' = db_ready

C15_WriteFailureKeepsReadiness == [][C15_Step]_vars

\* a store write has raised while db_ready was true (no connect attempt has ever
\* failed), db_ready is still true, and a later flush has written to the store
C15_Witness ==
    /\ db_ready
    /\ \E i \in 1..Len(fallback) : fallback[i] = TextLine("Flush Error")
    /\ \A i \in 1..Len(fallback) : fallback[i] # TextLine("DB Connection Error")
    /\ \E i \in 1..Len(store) : \E j \in FallbackIds : store[i].e.id > j

\* C16: every step that writes the batch or db_ready, and every step that reads
\* db_ready, is taken by the thread that holds the lock (the worker's append
\* takes the lock in the same step), so no thread is inside reopen() while
\* another is inside _flush_to_db.
C16_Holds(p) ==
    \/ lock = p
    \/ p = Worker /\ pc[p] = "lock" /\ lock = Free

C16_Step ==
    \A p \in Procs :
        pc'[p] # pc[p] =>
            /\ (buffer' # buffer \/ db_ready' # db_ready) => C16_Holds(p)
            /\ pc[p] \in {"fA", "fB", "reopen2"} => C16_Holds(p)

C16_OneMutex ==
    /\ [](\A t \in Reopeners : pc[t] = "reopen2" => \A p \in Procs : pc[p] \notin {"fA", "fB"})
    /\ [][C16_Step]_vars

\* C18: the worker thread ends only from a state where running is cleared and
\* the queue is empty, with every entry it dequeued appended to the batch; and
\* once running is cleared the worker thread eventually ends.
C18_LeavesLoop ==
    (WorkerAlive /\ pc'[Worker] \in {"exited", "dead"}) =>
        /\ ~running
        /\ queue = <<>>
        /\ went = NoEntry

C18_WorkerDrains ==
    /\ [][C18_LeavesLoop]_vars
    /\ (~running) ~> (pc[Worker] \in {"exited", "dead"})

\* C19: no entry is written to the fallback sink more than once, and no entry
\* written to the store is also written to the fallback sink.
C19_FallbackAtMostOnce ==
    /\ \A i \in 1..Len(fallback), j \in 1..Len(fallback) :
          (i # j /\ fallback[i].kind = "entry" /\ fallback[j].kind = "entry") =>
             fallback[i].id # fallback[j].id
    /\ StoreIds \cap FallbackIds = {}

\* C11: an entry logged without a session id (conversation_id None) is stored by
\* a successful document-store flush in the document whose conversation_id is
\* "unknown".
C11_UnknownBucket ==
    [][\A p \in Procs :
          (LeavesFlushWrite(p) /\ db_type = "mongo" /\ store' # store) =>
             \A i \in 1..Len(buffer) :
                buffer[i].conversation_id = None =>
                   \E j \in (Len(store) + 1)..Len(store') :
                      /\ store'[j].e.id = buffer[i].id
                      /\ store'[j].key = "unknown"]_vars

\* C17: the log list stored for each session id holds that session's entries in
\* the order they were enqueued; each store write appends the batch's entries of
\* a session, in batch order, to the list the session already has, and leaves
\* the lists of sessions absent from the batch unchanged.
C17_SessionIds(st, k) ==
    LET sel == SelectSeq(st, LAMBDA r : r.key = k)
    IN [i \in 1..Len(sel) |-> sel[i].e.id]

C17_BatchIds(buf, k) ==
    LET sel == SelectSeq(buf, LAMBDA e : e.conversation_id = k)
    IN [i \in 1..Len(sel) |-> sel[i].id]

C17_Keys == ConversationIds \cup {"unknown"}

C17_AppendStep ==
    store' # store =>
        \A k \in C17_Keys :
            C17_SessionIds(store', k) = C17_SessionIds(store, k) \o C17_BatchIds(buffer, k)

C17_IntraSessionOrder ==
    /\ [](\A k \in C17_Keys :
            LET ids == C17_SessionIds(store, k)
            IN \A i \in 1..Len(ids), j \in 1..Len(ids) : i < j => ids[i] < ids[j])
    /\ [][C17_AppendStep]_vars

\* session s1 has entries stored by two different flushes, and an entry of
\* session s2 was enqueued between them and is stored as well
C17_Witness ==
    /\ db_type = "mongo"
    /\ \E a \in 1..Len(store), b \in 1..Len(store), c \in 1..Len(store) :
          /\ store[a].key = "s1"
          /\ store[b].key = "s2"
          /\ store[c].key = "s1"
          /\ store[a].e.id < store[b].e.id
          /\ store[b].e.id < store[c].e.id

\* C14: whenever no emit() or flush() of the MongoHandler is in progress its
\* buffer is shorter than batch_size, also while the store stays not ready; a
\* flush that finds the store still not ready writes the buffered entries to the
\* fallback file and clears the buffer.
C14_NotReadyReturn(p) ==
    (hpc[p] = "check" /\ ~hready /\ hbuffer # <<>> /\ hpc'[p] # "check") =>
        /\ hbuffer' = <<>>
        /\ hfile' = hfile \o HFallbackLines(hbuffer)

C14_HandlerBufferBounded ==
    /\ []((\A p \in HThreads : hpc[p] = "idle") => Len(hbuffer) < batch_size)
    /\ [][\A p \in HThreads : C14_NotReadyReturn(p)]_vars

\* C20: with one thread in emit() and another calling flush() on the
\* MongoHandler, every entry appended to the buffer is written exactly once, to
\* the store or to the fallback file, by the time both threads are idle and the
\* buffer is empty.  Stated for behaviours in which no emit() failed to format
\* its record, so that every emit() appended its entry.
C20_Writes(id) ==
    Cardinality({i \in 1..Len(hstore) : hstore[i].e.id = id})
    + Cardinality({i \in 1..Len(hfile) : hfile[i].kind = "entry" /\ hfile[i].id = id})

C20_HandlerExactlyOnce ==
    (/\ \A p \in HThreads : hpc[p] = "idle"
     /\ hbuffer = <<>>
     /\ \A i \in 1..Len(hfile) : hfile[i] # TextLine("MongoHandler Emit Error")) =>
        \A id \in 1..nemit : C20_Writes(id) = 1

====
